---------------------------- MODULE Spec2Model ----------------------------
(***************************************************************************)
(* Metrohenge: the "Upcoming Alignments" and "Recent Alignments" cells of  *)
(* the page (the Recurrence Resolver).  The page reads the JavaScript      *)
(* clock, takes the calendar year of it, and runs two DuckDB queries over  *)
(* the solar_alignments table.  Instants are minutes since                 *)
(* 1970-01-01 00:00 UTC (the table stores whole minutes, seconds = 0).     *)
(***************************************************************************)
EXTENDS Integers, Sequences, FiniteSets, TLC

VARIABLES
    clock,        \* the wall clock, an instant
    ticks,        \* minutes elapsed since the page was opened
    events,       \* rows of solar_alignments, in file order
    browserTZ,    \* the zone of the JavaScript runtime (Date#getFullYear)
    sessionTZ,    \* the DuckDB session TimeZone (INTERVAL arithmetic)
    loaded,       \* the cell "const now = new Date()" has run
    now,          \* JS now
    currentYear,  \* now.getFullYear()
    upcomingDone, \* the upcoming query has run
    upcomingAt,   \* current_timestamp of the upcoming query
    upcoming,     \* its rows, in result order
    recentDone,   \* the recent query has run
    recentAt,     \* current_timestamp of the recent query
    recent        \* its rows, in result order

vars == <<clock, ticks, events, browserTZ, sessionTZ, loaded, now, currentYear,
          upcomingDone, upcomingAt, upcoming, recentDone, recentAt, recent>>

---------------------------------------------------------------------------
(* The proleptic Gregorian calendar, as ICU's GregorianCalendar computes it *)

MinutesPerDay == 24 * 60

IsLeap(y) == (y % 4 = 0 /\ y % 100 # 0) \/ y % 400 = 0

DaysInMonth(y, m) ==
    IF m = 2 THEN (IF IsLeap(y) THEN 29 ELSE 28)
    ELSE IF m \in {4, 6, 9, 11} THEN 30 ELSE 31

\* days from 1970-01-01 to the day doy (counted from March 1) of year yoe
\* of the 400-year era
DaysFromEra(era, yoe, doy) ==
    era * 146097 + yoe * 365 + yoe \div 4 - yoe \div 100 + doy - 719468

\* yy: the year that begins on March 1; mp: months since March
DaysFromShifted(yy, mp, d) ==
    DaysFromEra(yy \div 400, yy % 400, (153 * mp + 2) \div 5 + d - 1)

\* days from 1970-01-01 to y-m-d; linear in d, so a day past the end of the
\* month runs on into the next month (ICU calendars are lenient)
DaysFromCivil(y, m, d) ==
    DaysFromShifted(IF m <= 2 THEN y - 1 ELSE y, (m + 9) % 12, d)

CivilFromMonth(y0, m, d) ==
    [year |-> y0 + (IF m <= 2 THEN 1 ELSE 0), month |-> m, day |-> d]

CivilFromMp(y0, doy, mp) ==
    CivilFromMonth(y0, IF mp < 10 THEN mp + 3 ELSE mp - 9,
                   doy - (153 * mp + 2) \div 5 + 1)

CivilFromDoy(y0, doy) == CivilFromMp(y0, doy, (5 * doy + 2) \div 153)

CivilFromYoe(era, doe, yoe) ==
    CivilFromDoy(yoe + era * 400, doe - (365 * yoe + yoe \div 4 - yoe \div 100))

CivilFromDoe(era, doe) ==
    CivilFromYoe(era, doe,
        (doe - doe \div 1460 + doe \div 36524 - doe \div 146096) \div 365)

\* the year, month and day of the day z days after 1970-01-01
CivilFromDays(z) ==
    CivilFromDoe((z + 719468) \div 146097, (z + 719468) % 146097)

\* 0 = Sunday; 1970-01-01 was a Thursday
Weekday(z) == (z + 4) % 7

\* the day of month of the n-th Sunday of month m of year y
NthSunday(y, m, n) ==
    1 + ((7 - Weekday(DaysFromCivil(y, m, 1))) % 7) + 7 * (n - 1)

---------------------------------------------------------------------------
(* Time zones (IANA rules in force since 2007)                             *)

Zones == {"America/New_York", "UTC", "Asia/Tokyo", "Pacific/Honolulu"}

StdOffset(tz) ==
    CASE tz = "America/New_York" -> -(5 * 60)
      [] tz = "UTC"              -> 0
      [] tz = "Asia/Tokyo"       -> 9 * 60
      [] tz = "Pacific/Honolulu" -> -(10 * 60)

HasDST(tz) == tz = "America/New_York"

\* US rule: daylight time from the second Sunday of March, 02:00 standard
\* time, to the first Sunday of November, 02:00 daylight time
DSTStart(tz, y) ==
    DaysFromCivil(y, 3, NthSunday(y, 3, 2)) * MinutesPerDay + 2 * 60 - StdOffset(tz)

DSTEnd(tz, y) ==
    DaysFromCivil(y, 11, NthSunday(y, 11, 1)) * MinutesPerDay + 2 * 60
        - (StdOffset(tz) + 60)

\* the offset from UTC at instant t, which falls in year y of standard time
OffsetInYear(tz, t, y) ==
    IF DSTStart(tz, y) <= t /\ t < DSTEnd(tz, y)
    THEN StdOffset(tz) + 60 ELSE StdOffset(tz)

\* the zone's offset from UTC at instant t
OffsetAt(tz, t) ==
    IF ~HasDST(tz) THEN StdOffset(tz)
    ELSE OffsetInYear(tz, t,
             CivilFromDays((t + StdOffset(tz)) \div MinutesPerDay).year)

WithTime(c, r) ==
    [year |-> c.year, month |-> c.month, day |-> c.day,
     hour |-> r \div 60, minute |-> r % 60]

\* the wall-clock fields of local time loc (minutes)
CivilOfLocal(loc) ==
    WithTime(CivilFromDays(loc \div MinutesPerDay), loc % MinutesPerDay)

\* the wall-clock fields of instant t in zone tz
ToCivil(t, tz) == CivilOfLocal(t + OffsetAt(tz, t))

---------------------------------------------------------------------------
(* DuckDB's ICU extension                                                  *)

\* The instant at which the wall clock of tz shows wall.  A wall time that
\* the zone skips or repeats resolves as ICU's default does
\* (UCAL_WALLTIME_LAST): a repeated time is the later one, a skipped time is
\* read with the offset in force before the transition.
ResolveWall(wall, tz) ==
    IF ~HasDST(tz) THEN wall - StdOffset(tz)
    ELSE IF OffsetAt(tz, wall - StdOffset(tz)) = StdOffset(tz)
         THEN wall - StdOffset(tz)
    ELSE IF OffsetAt(tz, wall - (StdOffset(tz) + 60)) = StdOffset(tz) + 60
         THEN wall - (StdOffset(tz) + 60)
    ELSE wall - StdOffset(tz)

\* make_timestamptz(year, month, day, hour, minute, 0, timezone)
make_timestamptz(y, m, d, h, mi, tz) ==
    ResolveWall(DaysFromCivil(y, m, d) * MinutesPerDay + h * 60 + mi, tz)

\* the fields c moved to year y: the day is pinned to the length of the month
PinnedToYear(c, y, tz) ==
    make_timestamptz(y, c.month,
        IF c.day > DaysInMonth(y, c.month) THEN DaysInMonth(y, c.month) ELSE c.day,
        c.hour, c.minute, tz)

AddYearsToCivil(c, n, tz) == PinnedToYear(c, c.year + n, tz)

\* ts + INTERVAL 'n year' (n may be negative): ICU adds 12 * n months to the
\* calendar fields of ts in the session's zone, pins the day to the length
\* of the month, and resolves the fields again.
AddYears(ts, n, tz) == AddYearsToCivil(ToCivil(ts, tz), n, tz)

\* Date.prototype.getFullYear: the year of the instant in the runtime's zone
getFullYear(t, tz) == ToCivil(t, tz).year

---------------------------------------------------------------------------
(* The two queries.  A table is a sequence of rows.                        *)

SetMin(S) == CHOOSE x \in S : \A y \in S : x <= y

SetMax(S) == CHOOSE x \in S : \A y \in S : x >= y

\* WITH base AS (SELECT station_name, make_timestamptz(currentYear, ...))
BaseRow(e, year) ==
    [station_name |-> e.station_name,
     this_year_ts |-> make_timestamptz(year, e.month, e.day, e.hour, e.minute,
                                       e.timezone)]

base(tbl, year) == [i \in 1..Len(tbl) |-> BaseRow(tbl[i], year)]

\* a roll by a fixed 365 days instead of one calendar year
NextOccurrence_Naive365(ts, cts, stz) ==
    IF ts >= cts THEN ts ELSE ts + 365 * MinutesPerDay

\* CASE WHEN this_year_ts >= current_timestamp THEN this_year_ts
\*      ELSE this_year_ts + INTERVAL '1 year' END
NextOccurrence(ts, cts, stz) ==
    IF ts >= cts THEN ts ELSE AddYears(ts, 1, stz)

NextRow(b, cts, stz) ==
    [station_name |-> b.station_name,
     alignment_datetime |-> NextOccurrence(b.this_year_ts, cts, stz)]

next_occurrences(rows, cts, stz) ==
    [i \in 1..Len(rows) |-> NextRow(rows[i], cts, stz)]

\* an instant equal to current_timestamp counted as not yet past
LastOccurrence_Strict(ts, cts, stz) ==
    IF ts < cts THEN ts ELSE AddYears(ts, -1, stz)

\* CASE WHEN this_year_ts <= current_timestamp THEN this_year_ts
\*      ELSE this_year_ts - INTERVAL '1 year' END
LastOccurrence(ts, cts, stz) ==
    IF ts <= cts THEN ts ELSE AddYears(ts, -1, stz)

LastRow(b, cts, stz) ==
    [station_name |-> b.station_name,
     alignment_datetime |-> LastOccurrence(b.this_year_ts, cts, stz)]

last_occurrences(rows, cts, stz) ==
    [i \in 1..Len(rows) |-> LastRow(rows[i], cts, stz)]

\* WHERE alignment_datetime >= current_timestamp
WhereUpcoming(rows, cts) ==
    SelectSeq(rows, LAMBDA r : r.alignment_datetime >= cts)

\* the recent query without its WHERE clause
WhereRecent_Unfiltered(rows, cts) == rows

\* WHERE alignment_datetime <= current_timestamp
WhereRecent(rows, cts) ==
    SelectSeq(rows, LAMBDA r : r.alignment_datetime <= cts)

\* the group's first row in place of its minimum
GroupMin_FirstRow(rows) ==
    {[station_name |-> s,
      alignment_datetime |->
          rows[SetMin({j \in 1..Len(rows) : rows[j].station_name = s})]
              .alignment_datetime] :
        s \in {rows[i].station_name : i \in 1..Len(rows)}}

\* SELECT station_name, MIN(alignment_datetime) ... GROUP BY station_name
GroupMin(rows) ==
    {[station_name |-> s,
      alignment_datetime |->
          SetMin({rows[i].alignment_datetime :
                     i \in {j \in 1..Len(rows) : rows[j].station_name = s}})] :
        s \in {rows[i].station_name : i \in 1..Len(rows)}}

\* SELECT station_name, MAX(alignment_datetime) ... GROUP BY station_name
GroupMax(rows) ==
    {[station_name |-> s,
      alignment_datetime |->
          SetMax({rows[i].alignment_datetime :
                     i \in {j \in 1..Len(rows) : rows[j].station_name = s}})] :
        s \in {rows[i].station_name : i \in 1..Len(rows)}}

\* the orders in which a set of rows may be returned
Orderings(S) ==
    {s \in [1..Cardinality(S) -> S] : \A r \in S : \E i \in DOMAIN s : s[i] = r}

\* the upcoming query without its ORDER BY
OrderByAsc_Unordered(S) == Orderings(S)

\* ORDER BY alignment_datetime ASC: every order of the rows that ascends
\* (rows with equal instants come in either order)
OrderByAsc(S) ==
    {s \in Orderings(S) :
        \A i \in 1..(Len(s) - 1) :
            s[i].alignment_datetime <= s[i + 1].alignment_datetime}

\* ORDER BY alignment_datetime DESC
OrderByDesc(S) ==
    {s \in Orderings(S) :
        \A i \in 1..(Len(s) - 1) :
            s[i].alignment_datetime >= s[i + 1].alignment_datetime}

\* the rows the upcoming query may return
UpcomingQuery(tbl, year, cts, stz) ==
    OrderByAsc(GroupMin(WhereUpcoming(
        next_occurrences(base(tbl, year), cts, stz), cts)))

\* the rows the recent query may return
RecentQuery(tbl, year, cts, stz) ==
    OrderByDesc(GroupMax(WhereRecent(
        last_occurrences(base(tbl, year), cts, stz), cts)))


---------------------------------------------------------------------------
(* Inputs                                                                  *)

MaxEvents == 2

MaxTicks == 1

EventZone == "America/New_York"

Event(id, station, mo, d, h, mi) ==
    [escalator_id |-> id, station_name |-> station, month |-> mo, day |-> d,
     hour |-> h, minute |-> mi, timezone |-> EventZone]

\* rows the solar_alignments table is drawn from
EventPool ==
    << Event(1, "Rosslyn",  6, 21, 12, 0),
       Event(2, "Rosslyn", 12, 31, 12, 0),
       Event(3, "Bethesda", 3,  8, 12, 0),
       Event(4, "Bethesda", 2, 28, 12, 0),
       Event(5, "Wheaton",  1,  1,  2, 0),
       Event(6, "Wheaton",  2, 28, 19, 30) >>

\* the rows of EventPool with index in I, in the pool's order
TableOf(I) ==
    LET f == CHOOSE g \in [1..Cardinality(I) -> I] :
                 \A i, j \in 1..Cardinality(I) : i < j => g[i] < g[j]
    IN  [i \in 1..Cardinality(I) |-> EventPool[f[i]]]

Tables ==
    {TableOf(I) : I \in {J \in SUBSET (1..Len(EventPool)) :
                            1 <= Cardinality(J) /\ Cardinality(J) <= MaxEvents}}

\* the instants at which the page is opened, by the wall clock of EventZone
StartInstants ==
    { make_timestamptz(2025,  6,  1, 10,  0, EventZone),
      make_timestamptz(2025,  7,  1, 10,  0, EventZone),
      make_timestamptz(2025,  6, 21, 12,  0, EventZone),
      make_timestamptz(2025, 12, 31, 11, 59, EventZone),
      make_timestamptz(2026,  1,  1,  2,  0, EventZone),
      make_timestamptz(2025,  3,  8, 12,  0, EventZone),
      make_timestamptz(2024,  2, 28, 12,  0, EventZone),
      make_timestamptz(2025,  2, 28, 11, 59, EventZone),
      make_timestamptz(2027,  2, 28, 12,  0, EventZone) }

---------------------------------------------------------------------------
(* The page                                                                *)

\* The session TimeZone of DuckDB-Wasm is the runtime's zone or UTC,
\* depending on the build.
Init ==
    /\ clock \in StartInstants
    /\ ticks = 0
    /\ events \in Tables
    /\ browserTZ \in Zones
    /\ sessionTZ \in {browserTZ, "UTC"}
    /\ loaded = FALSE
    /\ now = 0
    /\ currentYear = 0
    /\ upcomingDone = FALSE
    /\ upcomingAt = 0
    /\ upcoming = << >>
    /\ recentDone = FALSE
    /\ recentAt = 0
    /\ recent = << >>

\* const now = new Date(); const currentYear = now.getFullYear();
ReadClock ==
    /\ ~loaded
    /\ loaded' = TRUE
    /\ now' = clock
    /\ currentYear' = getFullYear(clock, browserTZ)
    /\ UNCHANGED <<clock, ticks, events, browserTZ, sessionTZ, upcomingDone,
                   upcomingAt, upcoming, recentDone, recentAt, recent>>

\* a minute passes between two cells of the page
Tick ==
    /\ loaded
    /\ ticks < MaxTicks
    /\ ~(upcomingDone /\ recentDone)
    /\ clock' = clock + 1
    /\ ticks' = ticks + 1
    /\ UNCHANGED <<events, browserTZ, sessionTZ, loaded, now, currentYear,
                   upcomingDone, upcomingAt, upcoming, recentDone, recentAt,
                   recent>>

\* const upcoming = await db.sql(...)
RunUpcoming ==
    /\ loaded
    /\ ~upcomingDone
    /\ upcomingDone' = TRUE
    /\ upcomingAt' = clock
    /\ upcoming' \in UpcomingQuery(events, currentYear, clock, sessionTZ)
    /\ UNCHANGED <<clock, ticks, events, browserTZ, sessionTZ, loaded, now,
                   currentYear, recentDone, recentAt, recent>>

\* const recent = await db.sql(...)
RunRecent ==
    /\ loaded
    /\ ~recentDone
    /\ recentDone' = TRUE
    /\ recentAt' = clock
    /\ recent' \in RecentQuery(events, currentYear, clock, sessionTZ)
    /\ UNCHANGED <<clock, ticks, events, browserTZ, sessionTZ, loaded, now,
                   currentYear, upcomingDone, upcomingAt, upcoming>>

Next == ReadClock \/ Tick \/ RunUpcoming \/ RunRecent

Spec == Init /\ [][Next]_vars


---------------------------------------------------------------------------
(* Vocabulary of the properties                                            *)

StationsOf(tbl) == {tbl[i].station_name : i \in 1..Len(tbl)}

EventsAt(s) == {events[i] : i \in {j \in 1..Len(events) : events[j].station_name = s}}

\* the occurrence of event e in year y: its fields localized onto y
Occurrence(e, y) ==
    make_timestamptz(y, e.month, e.day, e.hour, e.minute, e.timezone)

\* the years whose occurrences can lie next to the current instant
NearbyYears == (currentYear - 2)..(currentYear + 2)

\* the instants a result reports for station s
Answers(result, s) ==
    {result[i].alignment_datetime :
        i \in {j \in 1..Len(result) : result[j].station_name = s}}

RowsFor(result, s) == {j \in 1..Len(result) : result[j].station_name = s}

\* the mapping from station to instant that a result denotes
MappingOf(result) == {result[i] : i \in 1..Len(result)}

RowOrders(tbl) ==
    {[i \in 1..Len(tbl) |-> tbl[f[i]]] :
        f \in {g \in [1..Len(tbl) -> 1..Len(tbl)] :
                  \A i, j \in 1..Len(tbl) : i # j => g[i] # g[j]}}

Abs(x) == IF x < 0 THEN -x ELSE x

---------------------------------------------------------------------------
(* C1: the upcoming query returns, per station, the nearest future          *)
(* occurrence of the station's yearly pattern (no occurrence of any of its  *)
(* events lies at or after now and strictly before the returned instant),   *)
(* and the recent query the most recent past occurrence (no occurrence      *)
(* lies strictly after the returned instant and at or before now), also     *)
(* when getFullYear() differs from the year of now in the event's zone.     *)
C1_NearestOccurrence ==
    /\ upcomingDone =>
         \A i \in 1..Len(upcoming) :
           \A e \in EventsAt(upcoming[i].station_name) :
             \A y \in NearbyYears :
               ~(upcomingAt <= Occurrence(e, y)
                 /\ Occurrence(e, y) < upcoming[i].alignment_datetime)
    /\ recentDone =>
         \A i \in 1..Len(recent) :
           \A e \in EventsAt(recent[i].station_name) :
             \A y \in NearbyYears :
               ~(recent[i].alignment_datetime < Occurrence(e, y)
                 /\ Occurrence(e, y) <= recentAt)

(* C3: every station with at least one event appears in exactly one row of *)
(* the upcoming result and in exactly one row of the recent result, and a  *)
(* station with no event in neither.                                       *)
C3_OneRowPerStation ==
    /\ upcomingDone =>
         /\ StationsOf(upcoming) = StationsOf(events)
         /\ \A s \in StationsOf(events) : Cardinality(RowsFor(upcoming, s)) = 1
    /\ recentDone =>
         /\ StationsOf(recent) = StationsOf(events)
         /\ \A s \in StationsOf(events) : Cardinality(RowsFor(recent, s)) = 1

(* C7: an event rolled to the adjacent year lands on the localization of   *)
(* its fields onto that year: this_year_ts + INTERVAL '1 year' equals       *)
(* make_timestamptz for currentYear + 1, and this_year_ts - INTERVAL        *)
(* '1 year' equals make_timestamptz for currentYear - 1.                    *)
C7_RollIsRelocalization ==
    /\ upcomingDone =>
         \A i \in 1..Len(events) :
           Occurrence(events[i], currentYear) < upcomingAt =>
             NextOccurrence(Occurrence(events[i], currentYear), upcomingAt, sessionTZ)
               = Occurrence(events[i], currentYear + 1)
    /\ recentDone =>
         \A i \in 1..Len(events) :
           Occurrence(events[i], currentYear) > recentAt =>
             LastOccurrence(Occurrence(events[i], currentYear), recentAt, sessionTZ)
               = Occurrence(events[i], currentYear - 1)

\* the wall clock of event e's zone shows e's month, day, hour and minute
\* of year y at instant t
ShowsFieldsOf(t, e, y) ==
    ToCivil(t, e.timezone) =
        [year |-> y, month |-> e.month, day |-> e.day, hour |-> e.hour,
         minute |-> e.minute]

(* C8: an event stored for Feb 28 projects onto Feb 28, same wall-clock    *)
(* time, of the current year (leap or not), and a roll of one year forward *)
(* or backward lands on Feb 28 of the adjacent year.                       *)
C8_Feb28StaysFeb28 ==
    \A i \in 1..Len(events) :
      (events[i].month = 2 /\ events[i].day = 28) =>
        /\ loaded => ShowsFieldsOf(Occurrence(events[i], currentYear),
                                   events[i], currentYear)
        /\ (upcomingDone /\ Occurrence(events[i], currentYear) < upcomingAt) =>
             ShowsFieldsOf(NextOccurrence(Occurrence(events[i], currentYear),
                                          upcomingAt, sessionTZ),
                           events[i], currentYear + 1)
        /\ (recentDone /\ Occurrence(events[i], currentYear) > recentAt) =>
             ShowsFieldsOf(LastOccurrence(Occurrence(events[i], currentYear),
                                          recentAt, sessionTZ),
                           events[i], currentYear - 1)


\* the instant the upcoming query resolves event e to
ResolvedNext(e) ==
    IF Occurrence(e, currentYear) >= upcomingAt
    THEN Occurrence(e, currentYear)
    ELSE AddYears(Occurrence(e, currentYear), 1, sessionTZ)

\* the instant the recent query resolves event e to
ResolvedLast(e) ==
    IF Occurrence(e, currentYear) > recentAt
    THEN AddYears(Occurrence(e, currentYear), -1, sessionTZ)
    ELSE Occurrence(e, currentYear)

IsJune21Noon(e) == e.month = 6 /\ e.day = 21 /\ e.hour = 12 /\ e.minute = 0

(* C2: in the upcoming query an event is projected onto the calendar year  *)
(* of now, kept when the projection is not before now and moved forward by *)
(* one calendar year when it is; so a station whose only event is June 21  *)
(* 12:00 gets June 21 12:00 of year Y when now is June 1 of Y, and of Y + 1 *)
(* when now is July 1 of Y.                                                *)
C2_KeepOrRollForward ==
    upcomingDone =>
      \A s \in StationsOf(events) : \A e \in EventsAt(s) :
        EventsAt(s) = {e} =>
          /\ Occurrence(e, currentYear) >= upcomingAt =>
               Answers(upcoming, s) = {Occurrence(e, currentYear)}
          /\ Occurrence(e, currentYear) < upcomingAt =>
               Answers(upcoming, s) \subseteq
                   {AddYears(Occurrence(e, currentYear), 1, sessionTZ)}
          /\ (IsJune21Noon(e) /\ ToCivil(upcomingAt, e.timezone).month = 6
                /\ ToCivil(upcomingAt, e.timezone).day = 1) =>
               Answers(upcoming, s) =
                   {Occurrence(e, ToCivil(upcomingAt, e.timezone).year)}
          /\ (IsJune21Noon(e) /\ ToCivil(upcomingAt, e.timezone).month = 7
                /\ ToCivil(upcomingAt, e.timezone).day = 1) =>
               Answers(upcoming, s) =
                   {Occurrence(e, ToCivil(upcomingAt, e.timezone).year + 1)}

\* a station whose only event is June 21 12:00, queried on July 1, is
\* answered with June 21 of the next year
C2_Witness ==
    /\ upcomingDone
    /\ \E s \in StationsOf(events) : \E e \in EventsAt(s) :
         /\ EventsAt(s) = {e}
         /\ IsJune21Noon(e)
         /\ ToCivil(upcomingAt, e.timezone).month = 7
         /\ ToCivil(upcomingAt, e.timezone).day = 1
         /\ Occurrence(e, currentYear) < upcomingAt
         /\ Answers(upcoming, s) = {Occurrence(e, currentYear + 1)}

(* C4 as stated: an event whose projection equals now is returned by the   *)
(* upcoming query and, for the same now, is not returned by the recent     *)
(* query for that station.                                                 *)
C4_NowNotInRecent ==
    (upcomingDone /\ recentDone /\ upcomingAt = recentAt) =>
      \A i \in 1..Len(events) :
        Occurrence(events[i], currentYear) = upcomingAt =>
          /\ upcomingAt \in Answers(upcoming, events[i].station_name)
          /\ recentAt \notin Answers(recent, events[i].station_name)

(* C4 amended: an event whose projection equals now is returned by the     *)
(* upcoming query and by the recent query alike (both bounds are           *)
(* inclusive).                                                             *)
C4_NowInBoth ==
    \A i \in 1..Len(events) :
      /\ (upcomingDone /\ Occurrence(events[i], currentYear) = upcomingAt) =>
           Answers(upcoming, events[i].station_name) = {upcomingAt}
      /\ (recentDone /\ Occurrence(events[i], currentYear) = recentAt) =>
           Answers(recent, events[i].station_name) = {recentAt}

\* both queries ran at the instant of an event's projection
C4_Witness ==
    /\ upcomingDone /\ recentDone /\ upcomingAt = recentAt
    /\ \E i \in 1..Len(events) :
         /\ Occurrence(events[i], currentYear) = upcomingAt
         /\ Answers(upcoming, events[i].station_name) = {upcomingAt}
         /\ Answers(recent, events[i].station_name) = {recentAt}

(* C5: in the recent query an event is projected onto the calendar year of *)
(* now, moved back by one calendar year when the projection is strictly    *)
(* after now and kept otherwise; the station's answer is the maximum of    *)
(* the resulting instants that are at or before now.                       *)
C5_RecentIsMaxNotAfterNow ==
    recentDone =>
      \A s \in StationsOf(events) :
        LET kept == {t \in {ResolvedLast(e) : e \in EventsAt(s)} : t <= recentAt}
        IN  /\ Answers(recent, s) = (IF kept = {} THEN {} ELSE {SetMax(kept)})
            /\ Cardinality(RowsFor(recent, s)) <= 1

\* a station with two events, one of them rolled back, has an answer
C5_Witness ==
    /\ recentDone
    /\ \E s \in StationsOf(events) :
         /\ Cardinality(EventsAt(s)) >= 2
         /\ \E e \in EventsAt(s) : Occurrence(e, currentYear) > recentAt
         /\ \E e \in EventsAt(s) : Occurrence(e, currentYear) <= recentAt
         /\ Answers(recent, s) # {}

\* e1 comes earlier in the calendar year than e2, about six months before
SixMonthsApart(e1, e2) == e2.month - e1.month \in 5..7

(* C6: the upcoming answer of a station is the minimum over all resolved   *)
(* instants of all events of the station; with two events about six months *)
(* apart and now just after the earlier one, the answer is the later       *)
(* event's projection onto the current year.                               *)
C6_MinOverResolved ==
    upcomingDone =>
      \A s \in StationsOf(upcoming) :
        /\ Answers(upcoming, s) = {SetMin({ResolvedNext(e) : e \in EventsAt(s)})}
        /\ \A e1, e2 \in EventsAt(s) :
             (/\ EventsAt(s) = {e1, e2}
              /\ SixMonthsApart(e1, e2)
              /\ Occurrence(e1, currentYear) < upcomingAt
              /\ upcomingAt <= Occurrence(e1, currentYear) + MaxTicks) =>
               Answers(upcoming, s) = {Occurrence(e2, currentYear)}

(* C9: for fixed events and now, the station-to-instant mapping of the     *)
(* upcoming query and of the recent query is the same for every order of   *)
(* the event rows.                                                         *)
C9_OrderIndependent ==
    /\ upcomingDone =>
         \A t \in RowOrders(events) :
           \A r \in UpcomingQuery(t, currentYear, upcomingAt, sessionTZ) :
             MappingOf(r) = MappingOf(upcoming)
    /\ recentDone =>
         \A t \in RowOrders(events) :
           \A r \in RecentQuery(t, currentYear, recentAt, sessionTZ) :
             MappingOf(r) = MappingOf(recent)

\* a station with two events resolved to different instants is answered
C9_Witness ==
    /\ upcomingDone /\ recentDone
    /\ \E s \in StationsOf(upcoming) : \E e1, e2 \in EventsAt(s) :
         /\ ResolvedNext(e1) # ResolvedNext(e2)
         /\ ResolvedNext(e1) >= upcomingAt
         /\ ResolvedNext(e2) >= upcomingAt

(* C10: the upcoming rows ascend and the recent rows descend by instant,   *)
(* so the first row of either is the station closest to now.               *)
C10_SortedByInstant ==
    /\ upcomingDone =>
         /\ \A i, j \in 1..Len(upcoming) :
              i < j => upcoming[i].alignment_datetime <= upcoming[j].alignment_datetime
         /\ \A j \in 1..Len(upcoming) :
              Abs(upcoming[1].alignment_datetime - upcomingAt)
                <= Abs(upcoming[j].alignment_datetime - upcomingAt)
    /\ recentDone =>
         /\ \A i, j \in 1..Len(recent) :
              i < j => recent[i].alignment_datetime >= recent[j].alignment_datetime
         /\ \A j \in 1..Len(recent) :
              Abs(recent[1].alignment_datetime - recentAt)
                <= Abs(recent[j].alignment_datetime - recentAt)

\* both results hold stations with different instants
C10_Witness ==
    /\ upcomingDone /\ recentDone
    /\ Len(upcoming) >= 2 /\ Len(recent) >= 2
    /\ upcoming[1].alignment_datetime < upcoming[2].alignment_datetime
    /\ recent[1].alignment_datetime > recent[2].alignment_datetime


====
